---- MODULE Spec2Model ----
(***************************************************************************)
(* Model of the baby-activity tracker's activity store, its write-through  *)
(* to AsyncStorage, its day summary and the weekly chart                   *)
(* (src/app/index.tsx: BabyTrackerProvider, WeeklyChartModal), and of the  *)
(* baby context with the onboarding and settings forms that save through   *)
(* it (BabyProvider, OnboardingScreen, SettingsScreen).                    *)
(*                                                                         *)
(* Time is an integer count of milliseconds since local midnight of day 0, *)
(* as Date.getTime() is a count of milliseconds since the epoch.  Every    *)
(* local day is 24 hours long (no daylight-saving change inside the        *)
(* modelled days).                                                         *)
(***************************************************************************)
EXTENDS Integers, Sequences, FiniteSets, TLC

VARIABLES activities, selectedTime, now, lastOp, summary, weekOffset,
          loading, stored, inflight, errors, rejected, lastIo,
          babyName, feedingType, babyLoading, babyStored, babyCall,
          formName, alert, unhandled

\* The provider's loading flag, the value AsyncStorage holds under
\* ACTIVITIES_KEY, the AsyncStorage calls issued and not yet completed (in
\* the order of issue), the errors written with console.log, and the callers
\* whose promise was rejected
storage == <<loading, stored, inflight, errors, rejected>>

\* lastOp is the last call made on the store or the chart; lastIo is the
\* outcome of the AsyncStorage call that completed in the last step, "none"
\* when the last step was not a completion
\* The state of BabyProvider, the values AsyncStorage holds under
\* BABY_NAME_KEY and FEEDING_TYPE_KEY, the save or update that is awaiting
\* AsyncStorage, the text of the name field of the form on screen, the last
\* Alert shown, and whether a promise was rejected with no handler
babyVars == <<babyName, feedingType, babyLoading, babyStored, babyCall,
              formName, alert, unhandled>>

vars == <<activities, selectedTime, now, lastOp, summary, weekOffset, storage, lastIo,
          babyVars>>

----------------------------------------------------------------------------
(* Bounds of the model *)

MaxLog == 3
MaxDay == 2
\* AsyncStorage calls outstanding at a time
MaxInflight == 2
\* Lines written with console.log
MaxErrors == 1
\* Presses on week-prev, and the length of the logs the chart is drawn for
MaxWeek == 1
MaxWeekLog == 2

----------------------------------------------------------------------------
(* Time *)

MinuteMs == 60000
HourMs == 60 * MinuteMs
DayMs == 24 * HourMs

NoDate == -1

Days == 0..MaxDay

At(d, h, m, s) == d * DayMs + h * HourMs + m * MinuteMs + s * 1000

\* Date.prototype.toDateString: the local calendar date of an instant.
toDateString(t) == t \div DayMs

\* d.setHours(0, 0, 0, 0)
dayStartOf(t) == toDateString(t) * DayMs

\* d.setHours(23, 59, 59, 999)
dayEndOf(t) == toDateString(t) * DayMs + 23 * HourMs + 59 * MinuteMs + 59 * 1000 + 999

\* new Date(date): a Date with the same time value.
NewDate(t) == t

\* Math.floor in the place of Math.round
RoundMinutes_floor(diffMs) == diffMs \div MinuteMs

\* Math.round(diffMs / 60000): the nearest integer, halves rounded up.
RoundMinutes(diffMs) == (2 * diffMs + MinuteMs) \div (2 * MinuteMs)

Max(a, b) == IF a >= b THEN a ELSE b
Min(a, b) == IF a <= b THEN a ELSE b

\* DiffMinutes without the floor at zero
DiffMinutes_noFloor(diffMs) == RoundMinutes(diffMs)

\* Math.max(0, Math.round(diffMs / 60000))
DiffMinutes(diffMs) == Max(0, RoundMinutes(diffMs))

----------------------------------------------------------------------------
(* Activities *)

ActivityType == {"poop", "pee", "breast", "bottle", "sleep_start", "sleep_end"}

\* `${when.getTime()}-${type}`
MakeId(when, type) == <<when, type>>

NewActivity(when, type) ==
  [id |-> MakeId(when, type), type |-> type, timestamp |-> when]

RECURSIVE InsertAsc(_, _)
\* a is put before the first element that does not precede it in time
InsertAsc(a, s) ==
  IF s = <<>> THEN <<a>>
  ELSE IF NewDate(Head(s).timestamp) - NewDate(a.timestamp) < 0
       THEN <<Head(s)>> \o InsertAsc(a, Tail(s))
       ELSE <<a>> \o s

RECURSIVE SortByTimestamp(_)
\* activities.sort((a, b) => a.timestamp - b.timestamp): ascending, stable
SortByTimestamp(s) ==
  IF s = <<>> THEN <<>>
  ELSE InsertAsc(Head(s), SortByTimestamp(Tail(s)))

----------------------------------------------------------------------------
(* calculateSummaryForDay *)

IsSleepStart(a) == a.type = "sleep_start"
IsSleepEnd(a) == a.type = "sleep_end"

\* ClippedMinutes with the session's end not clipped to the end of the day
ClippedMinutes_endNotClipped(sleepStart, sleepEnd, targetDay) ==
  LET dayStart == dayStartOf(targetDay)
      dayEnd == dayEndOf(targetDay)
      effectiveStart == IF sleepStart < dayStart THEN dayStart ELSE sleepStart
  IN  IF effectiveStart <= dayEnd /\ sleepEnd >= dayStart
      THEN DiffMinutes(sleepEnd - effectiveStart)
      ELSE 0

\* ClippedMinutes with the whole session counted for every day
ClippedMinutes_anyDay(sleepStart, sleepEnd, targetDay) ==
  DiffMinutes(sleepEnd - sleepStart)

\* ClippedMinutes with the start of the session not clipped to dayStart
ClippedMinutes_startNotClipped(sleepStart, sleepEnd, targetDay) ==
  LET sleepStartDate == NewDate(sleepStart)
      sleepEndDate == NewDate(sleepEnd)
      dayStart == dayStartOf(targetDay)
      dayEnd == dayEndOf(targetDay)
      effectiveStart == sleepStartDate
      effectiveEnd == IF sleepEndDate > dayEnd THEN dayEnd ELSE sleepEndDate
  IN  IF effectiveStart <= dayEnd /\ effectiveEnd >= dayStart
      THEN DiffMinutes(effectiveEnd - effectiveStart)
      ELSE 0

\* Minutes of the session [sleepStart, sleepEnd] that the walk adds for the
\* target day: the session clipped to [dayStart, dayEnd].
ClippedMinutes(sleepStart, sleepEnd, targetDay) ==
  LET sleepStartDate == NewDate(sleepStart)
      sleepEndDate == NewDate(sleepEnd)
      dayStart == dayStartOf(targetDay)
      dayEnd == dayEndOf(targetDay)
      effectiveStart == IF sleepStartDate < dayStart THEN dayStart ELSE sleepStartDate
      effectiveEnd == IF sleepEndDate > dayEnd THEN dayEnd ELSE sleepEndDate
  IN  IF effectiveStart <= dayEnd /\ effectiveEnd >= dayStart
      THEN DiffMinutes(effectiveEnd - effectiveStart)
      ELSE 0

RECURSIVE SleepWalk_keepFirstStart(_, _, _, _)
\* SleepWalk with a sleep_start ignored while an earlier one is pending
SleepWalk_keepFirstStart(s, targetDay, sleepMinutes, lastSleepStart) ==
  IF s = <<>> THEN [sleepMinutes |-> sleepMinutes, lastSleepStart |-> lastSleepStart]
  ELSE LET activity == Head(s) IN
       IF IsSleepStart(activity)
       THEN SleepWalk_keepFirstStart(Tail(s), targetDay, sleepMinutes,
                                     IF lastSleepStart = NoDate THEN activity.timestamp
                                     ELSE lastSleepStart)
       ELSE IF IsSleepEnd(activity) /\ lastSleepStart # NoDate
       THEN SleepWalk_keepFirstStart(Tail(s), targetDay,
                      sleepMinutes + ClippedMinutes(lastSleepStart, activity.timestamp, targetDay),
                      NoDate)
       ELSE SleepWalk_keepFirstStart(Tail(s), targetDay, sleepMinutes, lastSleepStart)

RECURSIVE SleepWalk_startNotCleared(_, _, _, _)
\* SleepWalk with the pending start left in place by a sleep_end
SleepWalk_startNotCleared(s, targetDay, sleepMinutes, lastSleepStart) ==
  IF s = <<>> THEN [sleepMinutes |-> sleepMinutes, lastSleepStart |-> lastSleepStart]
  ELSE LET activity == Head(s) IN
       IF IsSleepStart(activity)
       THEN SleepWalk_startNotCleared(Tail(s), targetDay, sleepMinutes, activity.timestamp)
       ELSE IF IsSleepEnd(activity) /\ lastSleepStart # NoDate
       THEN SleepWalk_startNotCleared(Tail(s), targetDay,
                      sleepMinutes + ClippedMinutes(lastSleepStart, activity.timestamp, targetDay),
                      lastSleepStart)
       ELSE SleepWalk_startNotCleared(Tail(s), targetDay, sleepMinutes, lastSleepStart)

RECURSIVE SleepWalk(_, _, _, _)
\* The loop over allActivitiesSorted: s is the part not yet visited,
\* sleepMinutes and lastSleepStart are the loop's two variables.
SleepWalk(s, targetDay, sleepMinutes, lastSleepStart) ==
  IF s = <<>> THEN [sleepMinutes |-> sleepMinutes, lastSleepStart |-> lastSleepStart]
  ELSE LET activity == Head(s) IN
       IF IsSleepStart(activity)
       THEN SleepWalk(Tail(s), targetDay, sleepMinutes, activity.timestamp)
       ELSE IF IsSleepEnd(activity) /\ lastSleepStart # NoDate
       THEN SleepWalk(Tail(s), targetDay,
                      sleepMinutes + ClippedMinutes(lastSleepStart, activity.timestamp, targetDay),
                      NoDate)
       ELSE SleepWalk(Tail(s), targetDay, sleepMinutes, lastSleepStart)

\* OngoingMinutes with today's part counted from the start of the session
\* and not from midnight
OngoingMinutes_fromStart(lastSleepStart, targetDay, nowDate) ==
  IF lastSleepStart = NoDate THEN 0
  ELSE LET dayStart == dayStartOf(targetDay)
           dayEnd == dayEndOf(targetDay)
           isToday == toDateString(targetDay) = toDateString(nowDate)
       IN  IF lastSleepStart <= dayEnd
           THEN IF toDateString(lastSleepStart) = toDateString(targetDay)
                THEN IF isToday THEN DiffMinutes(nowDate - lastSleepStart) ELSE 0
                ELSE IF lastSleepStart < dayStart
                THEN IF isToday THEN DiffMinutes(nowDate - lastSleepStart)
                     ELSE DiffMinutes(dayEnd - dayStart)
                ELSE 0
           ELSE 0

\* OngoingMinutes with a session started on the target day counted up to now
\* whether or not the target day is today
OngoingMinutes_pastDayToNow(lastSleepStart, targetDay, nowDate) ==
  IF lastSleepStart = NoDate THEN 0
  ELSE LET dayStart == dayStartOf(targetDay)
           dayEnd == dayEndOf(targetDay)
           isToday == toDateString(targetDay) = toDateString(nowDate)
       IN  IF lastSleepStart <= dayEnd
           THEN IF toDateString(lastSleepStart) = toDateString(targetDay)
                THEN DiffMinutes(nowDate - lastSleepStart)
                ELSE IF lastSleepStart < dayStart
                THEN IF isToday THEN DiffMinutes(nowDate - dayStart)
                     ELSE DiffMinutes(dayEnd - dayStart)
                ELSE 0
           ELSE 0

\* OngoingMinutes with a past day counted from the start of the session and
\* not from the day's midnight
OngoingMinutes_pastDayFromStart(lastSleepStart, targetDay, nowDate) ==
  IF lastSleepStart = NoDate THEN 0
  ELSE LET dayStart == dayStartOf(targetDay)
           dayEnd == dayEndOf(targetDay)
           isToday == toDateString(targetDay) = toDateString(nowDate)
       IN  IF lastSleepStart <= dayEnd
           THEN IF toDateString(lastSleepStart) = toDateString(targetDay)
                THEN IF isToday THEN DiffMinutes(nowDate - lastSleepStart) ELSE 0
                ELSE IF lastSleepStart < dayStart
                THEN IF isToday THEN DiffMinutes(nowDate - dayStart)
                     ELSE DiffMinutes(dayEnd - lastSleepStart)
                ELSE 0
           ELSE 0

\* Minutes added after the walk for a sleep_start that is still pending.
OngoingMinutes(lastSleepStart, targetDay, nowDate) ==
  IF lastSleepStart = NoDate THEN 0
  ELSE LET sleepStartDate == NewDate(lastSleepStart)
           dayStart == dayStartOf(targetDay)
           dayEnd == dayEndOf(targetDay)
           isToday == toDateString(targetDay) = toDateString(nowDate)
       IN  IF sleepStartDate <= dayEnd
           THEN IF toDateString(sleepStartDate) = toDateString(targetDay)
                THEN IF isToday THEN DiffMinutes(nowDate - sleepStartDate) ELSE 0
                ELSE IF sleepStartDate < dayStart
                THEN IF isToday THEN DiffMinutes(nowDate - dayStart)
                     ELSE DiffMinutes(dayEnd - dayStart)
                ELSE 0
           ELSE 0

\* DayActivities without the comparison of dates
DayActivities_allDays(acts, targetDay) == acts

\* activities.filter(a => a.timestamp.toDateString() === targetDay.toDateString())
DayActivities(acts, targetDay) ==
  SelectSeq(acts, LAMBDA a : toDateString(NewDate(a.timestamp)) = toDateString(targetDay))

CountOfType(acts, type) == Len(SelectSeq(acts, LAMBDA a : a.type = type))

\* calculateSummaryForDay with the walk begun as if asleep since midnight
calculateSummaryForDay_asleepAtMidnight(acts, targetDay, nowDate) ==
  LET dayActivities == DayActivities(acts, targetDay)
      walk == SleepWalk(SortByTimestamp(acts), targetDay, 0, dayStartOf(targetDay))
  IN  [poop |-> CountOfType(dayActivities, "poop"),
       pee |-> CountOfType(dayActivities, "pee"),
       breast |-> CountOfType(dayActivities, "breast"),
       bottle |-> CountOfType(dayActivities, "bottle"),
       sleepMinutes |-> walk.sleepMinutes
                          + OngoingMinutes(walk.lastSleepStart, targetDay, nowDate),
       lastSleepStart |-> walk.lastSleepStart]

\* The DaySummary that calculateSummaryForDay(targetDay) returns for the log
\* acts at the current time nowDate.
calculateSummaryForDay(acts, targetDay, nowDate) ==
  LET dayActivities == DayActivities(acts, targetDay)
      allActivitiesSorted == SortByTimestamp(acts)
      walk == SleepWalk(allActivitiesSorted, targetDay, 0, NoDate)
  IN  [poop |-> CountOfType(dayActivities, "poop"),
       pee |-> CountOfType(dayActivities, "pee"),
       breast |-> CountOfType(dayActivities, "breast"),
       bottle |-> CountOfType(dayActivities, "bottle"),
       sleepMinutes |-> walk.sleepMinutes
                          + OngoingMinutes(walk.lastSleepStart, targetDay, nowDate),
       lastSleepStart |-> walk.lastSleepStart]

----------------------------------------------------------------------------
(* The activity store: BabyTrackerProvider *)

\* The timeline slot the model lets the user select (slot 23:00 of day 0).
SlotTimes == {At(0, 23, 0, 0)}

\* The instant the clock shows while the store is exercised: new Date().
StoreNow == At(1, 22, 45, 0)

\* The days a summary is asked for, as currentDay is: noon of the day.
TargetDays == {At(d, 12, 0, 0) : d \in Days}

NoSummary ==
  [targetDay |-> NoDate,
   result |-> [poop |-> 0, pee |-> 0, breast |-> 0, bottle |-> 0,
               sleepMinutes |-> 0, lastSleepStart |-> NoDate]]

\* exportData
exportData(acts) == acts

\* importData with the timestamp re-parsed as a date without its time of day
importData_dateOnly(importedActivities) ==
  [i \in DOMAIN importedActivities |->
     [importedActivities[i] EXCEPT !.timestamp = dayStartOf(@)]]

\* importData: each record with its timestamp re-parsed
importData(importedActivities) ==
  [i \in DOMAIN importedActivities |->
     [importedActivities[i] EXCEPT !.timestamp = NewDate(@)]]

\* The updater of addActivity with the new activity put last
Prepend_append(newActivity, prev) == prev \o <<newActivity>>

\* prev => [newActivity, ...prev]
Prepend(newActivity, prev) == <<newActivity>> \o prev

\* removeActivity with the comparison of the filter inverted
removeActivity_keepMatching(prev, activityId) ==
  SelectSeq(prev, LAMBDA a : a.id = activityId)

\* prev => prev.filter(a => a.id !== activityId)
removeActivity(prev, activityId) == SelectSeq(prev, LAMBDA a : a.id # activityId)

\* JSON.stringify of a Date: Date.prototype.toISOString, a string
toISOString(t) == [iso |-> t]

\* new Date(a.timestamp) for the string that JSON.parse yields
NewDateOfString(str) == str.iso

\* JSON.stringify(activities): the records with their timestamp as a string
JSONStringify(acts) ==
  [i \in DOMAIN acts |-> [acts[i] EXCEPT !.timestamp = toISOString(@)]]

\* JSON.parse(stored).map(a => ({...a, timestamp: new Date(a.timestamp)}))
parsedActivities(text) ==
  [i \in DOMAIN text |-> [text[i] EXCEPT !.timestamp = NewDateOfString(@)]]

\* What AsyncStorage holds under ACTIVITIES_KEY: nothing, the string of a
\* log, or a string on which JSON.parse or parsed.map throws
NoValue == [present |-> FALSE, value |-> <<>>, corrupt |-> FALSE]
StoredValue(text) == [present |-> TRUE, value |-> text, corrupt |-> FALSE]
CorruptValue == [present |-> TRUE, value |-> <<>>, corrupt |-> TRUE]

\* The AsyncStorage calls of the provider; by is the operation after which
\* the call was issued
GetItemOp == [op |-> "getItem", value |-> <<>>, by |-> "init"]
SetItemOp(text, by) == [op |-> "setItem", value |-> text, by |-> by]
RemoveItemOp == [op |-> "removeItem", value |-> <<>>, by |-> "clear_all"]

\* The effect on [activities, loading] run only for a change made by an add
saveActivities_onlyAfterAdd(acts, isLoading, queue, by) ==
  IF ~isLoading /\ by = "add"
  THEN Append(queue, SetItemOp(JSONStringify(acts), by)) ELSE queue

\* The effect on [activities, loading] without the test of loading
saveActivities_whileLoading(acts, isLoading, queue, by) ==
  Append(queue, SetItemOp(JSONStringify(acts), by))

\* The effect on [activities, loading]: saveActivities, which writes the
\* whole log unless loading
saveActivities(acts, isLoading, queue, by) ==
  IF ~isLoading THEN Append(queue, SetItemOp(JSONStringify(acts), by)) ELSE queue

\* Room for the write that a change of activities issues
CanSave == loading \/ Len(inflight) < MaxInflight

\* The catch block of saveActivities made to throw the error again
catchSaveError_rethrow(failed, queue, errs, rej) ==
  [inflight |-> queue, errors |-> errs, rejected |-> rej \cup {"saveActivities"}]

\* The catch block of saveActivities made to issue the write again
catchSaveError_retry(failed, queue, errs, rej) ==
  [inflight |-> Append(queue, failed), errors |-> Append(errs, "save"), rejected |-> rej]

\* The catch block of saveActivities: console.log and nothing else
catchSaveError(failed, queue, errs, rej) ==
  [inflight |-> queue, errors |-> Append(errs, "save"), rejected |-> rej]

\* A name that is null; the code tests names for truthiness only, which
\* null and the empty string fail alike.  A name is a sequence of characters.
NoName == <<>>

\* A feeding type that getItem did not find
NoFeedingType == ""

FeedingType == {"breast", "bottle", "mixed"}

\* No save or update is awaiting AsyncStorage.  A call records the function,
\* the write it is awaiting, its arguments, and babyName and feedingType as
\* they were when it was made.
NoCall ==
  [fn |-> "none", awaiting |-> "none", name |-> NoName, feeding |-> NoFeedingType,
   nameBefore |-> NoName, feedingBefore |-> NoFeedingType]

\* BabyProvider after construction, before loadBabyName has returned
BabyAtStart ==
  /\ babyName = NoName
  /\ feedingType = "mixed"
  /\ babyLoading = TRUE
  /\ babyStored = [name |-> NoName, feeding |-> NoFeedingType]
  /\ babyCall = NoCall
  /\ formName = <<>>
  /\ alert = "none"
  /\ unhandled = FALSE

\* The state after construction: the log empty, loading, and the getItem of
\* loadActivities issued
Init ==
  /\ activities = <<>>
  /\ selectedTime = NoDate
  /\ now = StoreNow
  /\ lastOp = "init"
  /\ summary = NoSummary
  /\ weekOffset = 0
  /\ loading = TRUE
  /\ stored = NoValue
  /\ inflight = <<GetItemOp>>
  /\ errors = <<>>
  /\ rejected = {}
  /\ lastIo = "none"
  /\ BabyAtStart

\* A press on a timeline slot: setSelectedTime(cellTime)
SetSelectedTime(cellTime) ==
  /\ selectedTime # cellTime
  /\ selectedTime' = cellTime
  /\ lastOp' = "select"
  /\ lastIo' = "none"
  /\ summary' = NoSummary
  /\ UNCHANGED <<babyVars, activities, now, weekOffset, storage>>

\* The effect on a change of currentDay: setSelectedTime(null)
ClearSelectedTime ==
  /\ selectedTime # NoDate
  /\ selectedTime' = NoDate
  /\ lastOp' = "select"
  /\ lastIo' = "none"
  /\ summary' = NoSummary
  /\ UNCHANGED <<babyVars, activities, now, weekOffset, storage>>

AddActivity(type) ==
  /\ Len(activities) < MaxLog
  /\ CanSave
  /\ LET when == IF selectedTime # NoDate THEN selectedTime ELSE now
     IN  activities' = Prepend(NewActivity(when, type), activities)
  /\ inflight' = saveActivities(activities', loading, inflight, "add")
  /\ lastOp' = "add"
  /\ lastIo' = "none"
  /\ summary' = NoSummary
  /\ UNCHANGED <<babyVars, selectedTime, now, weekOffset, loading, stored, errors, rejected>>

RemoveActivity(activityId) ==
  /\ CanSave
  /\ activities' = removeActivity(activities, activityId)
  /\ inflight' = saveActivities(activities', loading, inflight, "remove")
  /\ lastOp' = IF \E i \in DOMAIN activities : activities[i].id = activityId
               THEN "remove" ELSE "remove_absent"
  /\ lastIo' = "none"
  /\ summary' = NoSummary
  /\ UNCHANGED <<babyVars, selectedTime, now, weekOffset, loading, stored, errors, rejected>>

\* importData(exportData())
ImportExported ==
  /\ CanSave
  /\ activities' = importData(exportData(activities))
  /\ inflight' = saveActivities(activities', loading, inflight, "import")
  /\ lastOp' = "import_exported"
  /\ lastIo' = "none"
  /\ summary' = NoSummary
  /\ UNCHANGED <<babyVars, selectedTime, now, weekOffset, loading, stored, errors, rejected>>

\* clearAllData: setActivities([]) and removeItem, then the write of the
\* effect on the changed activities
ClearAllData ==
  /\ Len(inflight) + (IF loading THEN 1 ELSE 2) <= MaxInflight
  /\ activities' = <<>>
  /\ inflight' = saveActivities(activities', loading, Append(inflight, RemoveItemOp),
                                "clear_all")
  /\ lastOp' = "clear_all"
  /\ lastIo' = "none"
  /\ summary' = NoSummary
  /\ UNCHANGED <<babyVars, selectedTime, now, weekOffset, loading, stored, errors, rejected>>

\* The getItem of loadActivities returns: the stored log replaces the one in
\* memory when there is one, loading ends, and the effect writes the log
LoadActivitiesDone ==
  /\ inflight # <<>> /\ Head(inflight).op = "getItem"
  /\ ~stored.corrupt
  /\ activities' = IF stored.present THEN parsedActivities(stored.value) ELSE activities
  /\ loading' = FALSE
  /\ inflight' = saveActivities(activities', loading', Tail(inflight), "load")
  /\ summary' = NoSummary
  /\ lastIo' = "getItem_done"
  /\ UNCHANGED <<babyVars, selectedTime, now, lastOp, weekOffset, stored, errors, rejected>>

\* The getItem of loadActivities throws, or JSON.parse or parsed.map throws
\* on what it returned: the catch block logs, finally ends loading, and the
\* effect writes the log
LoadActivitiesFailed_noFinally ==
  /\ inflight # <<>> /\ Head(inflight).op = "getItem"
  /\ Len(errors) < MaxErrors
  /\ errors' = Append(errors, "load")
  /\ inflight' = Tail(inflight)
  /\ summary' = NoSummary
  /\ lastIo' = "getItem_failed"
  /\ UNCHANGED <<babyVars, activities, selectedTime, now, lastOp, weekOffset, stored, rejected,
                 loading>>

LoadActivitiesFailed ==
  /\ inflight # <<>> /\ Head(inflight).op = "getItem"
  /\ Len(errors) < MaxErrors
  /\ errors' = Append(errors, "load")
  /\ loading' = FALSE
  /\ inflight' = saveActivities(activities, loading', Tail(inflight), "load")
  /\ summary' = NoSummary
  /\ lastIo' = "getItem_failed"
  /\ UNCHANGED <<babyVars, activities, selectedTime, now, lastOp, weekOffset, stored, rejected>>

\* A setItem of saveActivities succeeds
SetItemDone ==
  /\ inflight # <<>> /\ Head(inflight).op = "setItem"
  /\ stored' = StoredValue(Head(inflight).value)
  /\ inflight' = Tail(inflight)
  /\ lastIo' = "setItem_done"
  /\ UNCHANGED <<babyVars, activities, selectedTime, now, lastOp, summary, weekOffset,
                 loading, errors, rejected>>

\* A setItem of saveActivities throws
SetItemFailed ==
  /\ inflight # <<>> /\ Head(inflight).op = "setItem"
  /\ Len(errors) < MaxErrors
  /\ LET caught == catchSaveError(Head(inflight), Tail(inflight), errors, rejected)
     IN  /\ inflight' = caught.inflight
         /\ errors' = caught.errors
         /\ rejected' = caught.rejected
  /\ lastIo' = "setItem_failed"
  /\ UNCHANGED <<babyVars, activities, selectedTime, now, lastOp, summary, weekOffset,
                 loading, stored>>

\* The removeItem of clearAllData succeeds
RemoveItemDone ==
  /\ inflight # <<>> /\ Head(inflight).op = "removeItem"
  /\ stored' = NoValue
  /\ inflight' = Tail(inflight)
  /\ lastIo' = "removeItem_done"
  /\ UNCHANGED <<babyVars, activities, selectedTime, now, lastOp, summary, weekOffset,
                 loading, errors, rejected>>

\* The removeItem of clearAllData throws: the promise of clearAllData rejects
RemoveItemFailed ==
  /\ inflight # <<>> /\ Head(inflight).op = "removeItem"
  /\ rejected' = rejected \cup {"clearAllData"}
  /\ inflight' = Tail(inflight)
  /\ lastIo' = "removeItem_failed"
  /\ UNCHANGED <<babyVars, activities, selectedTime, now, lastOp, summary, weekOffset,
                 loading, stored, errors>>

\* calculateSummaryForDay(targetDay): the summary is returned and the sort
\* of line 123-124 leaves the state array sorted in place.
CalculateSummaryForDay(targetDay) ==
  /\ summary' = [targetDay |-> targetDay,
                 result |-> calculateSummaryForDay(activities, targetDay, now)]
  /\ activities' = SortByTimestamp(activities)
  /\ lastOp' = "summary"
  /\ lastIo' = "none"
  /\ UNCHANGED <<babyVars, selectedTime, now, weekOffset, storage>>

\* The ids a removal is asked for: those of the log and one that is absent
RemovableIds ==
  {activities[i].id : i \in DOMAIN activities} \cup {MakeId(At(0, 8, 0, 0), "poop")}

Next ==
  \/ \E cellTime \in SlotTimes : SetSelectedTime(cellTime)
  \/ ClearSelectedTime
  \/ \E type \in ActivityType : AddActivity(type)
  \/ \E activityId \in RemovableIds : RemoveActivity(activityId)
  \/ ImportExported
  \/ \E targetDay \in TargetDays : CalculateSummaryForDay(targetDay)

Spec == Init /\ [][Next]_vars

----------------------------------------------------------------------------
(* calculateSummaryForDay over a bounded set of logs and clock readings *)

\* Timestamps of the sleep events of the logs
SleepTimes ==
  {At(0, 8, 0, 0), At(0, 9, 30, 0), At(0, 23, 0, 0),
   At(0, 23, 59, 30), At(1, 2, 0, 0), At(1, 22, 0, 0), At(1, 23, 30, 30),
   At(2, 0, 0, 0)}

\* Clock readings at which a summary is computed
NowTimes == {At(1, 22, 45, 0), At(1, 22, 45, 30), At(2, 1, 0, 0)}

SummaryActivities ==
  {NewActivity(t, type) : t \in SleepTimes, type \in {"sleep_start", "sleep_end"}}
    \cup {NewActivity(At(1, 8, 0, 0), "pee")}

SummaryLogs == UNION {[1..k -> SummaryActivities] : k \in 0..MaxLog}

InitSummary ==
  /\ activities \in SummaryLogs
  /\ selectedTime = NoDate
  /\ now \in NowTimes
  /\ lastOp = "init"
  /\ summary = NoSummary
  /\ weekOffset = 0
  /\ loading = TRUE
  /\ stored = NoValue
  /\ inflight = <<GetItemOp>>
  /\ errors = <<>>
  /\ rejected = {}
  /\ lastIo = "none"
  /\ BabyAtStart

NextSummary == \E targetDay \in TargetDays : CalculateSummaryForDay(targetDay)

SpecSummary == InitSummary /\ [][NextSummary]_vars

----------------------------------------------------------------------------
(* The store together with AsyncStorage *)

\* The log a previous session left in storage, if any
StoredAtStart ==
  {NoValue, StoredValue(JSONStringify(<<NewActivity(At(0, 8, 0, 0), "pee")>>)),
   CorruptValue}

\* The activity types logged while AsyncStorage is modelled
PersistTypes == {"poop", "sleep_start"}

InitPersist ==
  /\ activities = <<>>
  /\ selectedTime = NoDate
  /\ now = StoreNow
  /\ lastOp = "init"
  /\ summary = NoSummary
  /\ weekOffset = 0
  /\ loading = TRUE
  /\ stored \in StoredAtStart
  /\ inflight = <<GetItemOp>>
  /\ errors = <<>>
  /\ rejected = {}
  /\ lastIo = "none"
  /\ BabyAtStart

NextPersist ==
  \/ \E type \in PersistTypes : AddActivity(type)
  \/ \E activityId \in RemovableIds : RemoveActivity(activityId)
  \/ ImportExported
  \/ ClearAllData
  \/ LoadActivitiesDone
  \/ LoadActivitiesFailed
  \/ SetItemDone
  \/ SetItemFailed
  \/ RemoveItemDone
  \/ RemoveItemFailed

SpecPersist == InitPersist /\ [][NextPersist]_vars

\* Every AsyncStorage call that is outstanding settles: its promise is
\* resolved or rejected
SpecPersistFair ==
  /\ SpecPersist
  /\ WF_vars(LoadActivitiesDone \/ LoadActivitiesFailed)
  /\ WF_vars(SetItemDone \/ SetItemFailed)
  /\ WF_vars(RemoveItemDone \/ RemoveItemFailed)

----------------------------------------------------------------------------
(* The weekly chart: WeeklyChartModal *)

\* The day on which the chart is looked at, and the instant: new Date()
WeekToday == 20
WeekNow == At(WeekToday, 10, 30, 0)

\* d.toLocaleDateString(locale, {weekday: 'short'}); day 0 is a Sunday
WeekdayNames == <<"Sun", "Mon", "Tue", "Wed", "Thu", "Fri", "Sat">>
weekdayShort(t) == WeekdayNames[(toDateString(t) % 7) + 1]

\* d.setDate(d.getDate() - n)
setDateBack(t, n) == t - n * DayMs

\* summary.sleepMinutes / 60, as the fraction it is
sleepHoursOf(sleepMinutes) == [num |-> sleepMinutes, den |-> 60]

\* The body of the loop with the week offset taken as a number of days
weekPoint_offsetInDays(i, acts, offset, nowDate) ==
  LET d == setDateBack(nowDate, i + offset)
      daySummary == calculateSummaryForDay(acts, d, nowDate)
  IN  [day |-> weekdayShort(d),
       poop |-> daySummary.poop,
       pee |-> daySummary.pee,
       feedings |-> daySummary.breast + daySummary.bottle,
       sleepHours |-> sleepHoursOf(daySummary.sleepMinutes)]

\* The body of the loop of weekData: the point of the day i days before the
\* last day of the week shown
weekPoint(i, acts, offset, nowDate) ==
  LET d == setDateBack(nowDate, i + offset * 7)
      daySummary == calculateSummaryForDay(acts, d, nowDate)
  IN  [day |-> weekdayShort(d),
       poop |-> daySummary.poop,
       pee |-> daySummary.pee,
       feedings |-> daySummary.breast + daySummary.bottle,
       sleepHours |-> sleepHoursOf(daySummary.sleepMinutes)]

RECURSIVE weekDataFrom(_, _, _, _)
\* for (let i = ...; i >= 0; i--) data.push(...)
weekDataFrom(i, acts, offset, nowDate) ==
  IF i < 0 THEN <<>>
  ELSE <<weekPoint(i, acts, offset, nowDate)>> \o weekDataFrom(i - 1, acts, offset, nowDate)

\* The memo weekData of the chart
weekData(acts, offset, nowDate) == weekDataFrom(6, acts, offset, nowDate)

\* The updater of week-prev
weekPrev(prev) == prev + 1

\* The updater of week-next without Math.max
weekNext_noClamp(prev) == prev - 1

\* The updater of week-next
weekNext(prev) == Max(0, prev - 1)

\* A press on week-prev; the chart is drawn again, and calculateSummaryForDay
\* sorts the log
WeekPrev ==
  /\ weekOffset < MaxWeek
  /\ weekOffset' = weekPrev(weekOffset)
  /\ activities' = SortByTimestamp(activities)
  /\ lastOp' = "week_prev"
  /\ lastIo' = "none"
  /\ summary' = NoSummary
  /\ UNCHANGED <<babyVars, selectedTime, now, storage>>

\* A press on week-next; the updater runs also for a press made at offset 0
\* before the button is drawn disabled
WeekNext ==
  /\ weekOffset' = weekNext(weekOffset)
  /\ activities' = SortByTimestamp(activities)
  /\ lastOp' = IF weekOffset = 0 THEN "week_next_at_0" ELSE "week_next"
  /\ lastIo' = "none"
  /\ summary' = NoSummary
  /\ UNCHANGED <<babyVars, selectedTime, now, storage>>

\* The activities of the logs the chart is drawn for
WeekActivities ==
  {NewActivity(At(WeekToday, 9, 0, 0), "poop"),
   NewActivity(At(WeekToday - 6, 9, 0, 0), "pee"),
   NewActivity(At(WeekToday - 7, 9, 0, 0), "breast"),
   NewActivity(At(WeekToday - 7, 9, 0, 0), "bottle"),
   NewActivity(At(WeekToday - 13, 9, 0, 0), "poop"),
   NewActivity(At(WeekToday - 8, 22, 0, 0), "sleep_start"),
   NewActivity(At(WeekToday - 7, 6, 30, 0), "sleep_end"),
   NewActivity(At(WeekToday - 1, 23, 0, 0), "sleep_start"),
   NewActivity(At(WeekToday, 1, 0, 0), "sleep_end")}

\* The logs as the first drawing of the chart leaves them: sorted
WeekLogs ==
  {SortByTimestamp(l) : l \in UNION {[1..k -> WeekActivities] : k \in 0..MaxWeekLog}}

InitWeek ==
  /\ activities \in WeekLogs
  /\ selectedTime = NoDate
  /\ now = WeekNow
  /\ lastOp = "init"
  /\ summary = NoSummary
  /\ weekOffset = 0
  /\ loading = TRUE
  /\ stored = NoValue
  /\ inflight = <<GetItemOp>>
  /\ errors = <<>>
  /\ rejected = {}
  /\ lastIo = "none"
  /\ BabyAtStart

NextWeek == WeekPrev \/ WeekNext

SpecWeek == InitWeek /\ [][NextWeek]_vars

----------------------------------------------------------------------------
(* The baby context and the forms that save through it *)

BABY_NAME_KEY == "baby_name"
FEEDING_TYPE_KEY == "feeding_type"

\* The characters String.prototype.trim removes, as far as the texts have them
Whitespace == {" ", "\t"}

\* String.prototype.trim with nothing removed
trim_nothing(text) == text

\* String.prototype.trim: the text from its first to its last character that
\* is not whitespace
trim(text) ==
  LET inked == {i \in DOMAIN text : text[i] \notin Whitespace} IN
  IF inked = {} THEN <<>>
  ELSE SubSeq(text, CHOOSE i \in inked : \A k \in inked : i <= k,
                    CHOOSE i \in inked : \A k \in inked : k <= i)

\* The texts typed into the name field
FormTexts == {<<>>, <<" ">>, <<" ", "\t">>, <<"A">>, <<" ", "B", " ">>}

\* What a previous session left under the two keys
BabyStoredAtStart ==
  {[name |-> NoName, feeding |-> NoFeedingType],
   [name |-> <<"A">>, feeding |-> NoFeedingType],
   [name |-> <<"A">>, feeding |-> "breast"]}

\* The variables of the activity store, which the baby context leaves alone
trackerVars == <<activities, selectedTime, now, summary, weekOffset, storage>>

\* loadBabyName returns: both getItem calls have succeeded
LoadBabyNameDone ==
  /\ babyLoading
  /\ babyName' = IF babyStored.name # NoName THEN babyStored.name ELSE babyName
  /\ feedingType' = IF babyStored.feeding # NoFeedingType THEN babyStored.feeding
                    ELSE feedingType
  /\ babyLoading' = FALSE
  /\ lastIo' = "getItem_done"
  /\ UNCHANGED <<trackerVars, lastOp, babyStored, babyCall, formName, alert, unhandled>>

\* The getItem of loadBabyName for key throws: what was read before it is
\* kept, the catch block logs and finally ends loading
LoadBabyNameFailed(key) ==
  /\ babyLoading
  /\ babyName' = IF key = FEEDING_TYPE_KEY /\ babyStored.name # NoName
                 THEN babyStored.name ELSE babyName
  /\ babyLoading' = FALSE
  /\ lastIo' = "getItem_failed"
  /\ UNCHANGED <<trackerVars, lastOp, feedingType, babyStored, babyCall, formName,
                 alert, unhandled>>

\* onChangeText of the name field
SetFormName(text) ==
  /\ ~babyLoading
  /\ babyCall = NoCall
  /\ formName # text
  /\ formName' = text
  /\ lastOp' = "type_name"
  /\ lastIo' = "none"
  /\ UNCHANGED <<trackerVars, babyName, feedingType, babyLoading, babyStored, babyCall,
                 alert, unhandled>>

\* handleCreateBaby of the onboarding screen, shown while there is no name,
\* with type the feeding type chosen on it
HandleCreateBaby(type) ==
  /\ ~babyLoading
  /\ babyName = NoName
  /\ babyCall = NoCall
  /\ IF trim(formName) = <<>>
     THEN /\ alert' = "enterBabyName"
          /\ babyCall' = babyCall
     ELSE /\ babyCall' = [fn |-> "saveBabyName", awaiting |-> BABY_NAME_KEY,
                          name |-> trim(formName), feeding |-> type,
                          nameBefore |-> babyName, feedingBefore |-> feedingType]
          /\ alert' = alert
  /\ lastOp' = "create_baby"
  /\ lastIo' = "none"
  /\ UNCHANGED <<trackerVars, babyName, feedingType, babyLoading, babyStored, formName,
                 unhandled>>

\* handleSave of the settings screen, reachable once there is a name
HandleSave ==
  /\ ~babyLoading
  /\ babyName # NoName
  /\ babyCall = NoCall
  /\ IF trim(formName) = <<>>
     THEN /\ alert' = "enterName"
          /\ babyCall' = babyCall
     ELSE /\ babyCall' = [fn |-> "updateBabyName", awaiting |-> BABY_NAME_KEY,
                          name |-> trim(formName), feeding |-> NoFeedingType,
                          nameBefore |-> babyName, feedingBefore |-> feedingType]
          /\ alert' = alert
  /\ lastOp' = "save_name"
  /\ lastIo' = "none"
  /\ UNCHANGED <<trackerVars, babyName, feedingType, babyLoading, babyStored, formName,
                 unhandled>>

\* A press on a feeding type of the settings screen: updateFeedingType(type),
\* whose promise the press handler drops
UpdateFeedingType(type) ==
  /\ ~babyLoading
  /\ babyName # NoName
  /\ babyCall = NoCall
  /\ babyCall' = [fn |-> "updateFeedingType", awaiting |-> FEEDING_TYPE_KEY,
                  name |-> NoName, feeding |-> type,
                  nameBefore |-> babyName, feedingBefore |-> feedingType]
  /\ lastOp' = "update_feeding"
  /\ lastIo' = "none"
  /\ UNCHANGED <<trackerVars, babyName, feedingType, babyLoading, babyStored, formName,
                 alert, unhandled>>

\* setItem(BABY_NAME_KEY, name) succeeds: setBabyName, and saveBabyName goes
\* on to the feeding type when it was given one
BabyNameWriteDone ==
  /\ babyCall.awaiting = BABY_NAME_KEY
  /\ babyStored' = [babyStored EXCEPT !.name = babyCall.name]
  /\ babyName' = babyCall.name
  /\ IF babyCall.fn = "saveBabyName" /\ babyCall.feeding # NoFeedingType
     THEN /\ babyCall' = [babyCall EXCEPT !.awaiting = FEEDING_TYPE_KEY]
          /\ alert' = alert
     ELSE /\ babyCall' = NoCall
          /\ alert' = IF babyCall.fn = "updateBabyName" THEN "nameUpdated" ELSE alert
  /\ lastIo' = "setItem_done"
  /\ UNCHANGED <<trackerVars, lastOp, feedingType, babyLoading, formName, unhandled>>

\* setItem(BABY_NAME_KEY, name) throws: the function logs and throws, and the
\* handler that awaits it shows an Alert
BabyNameWriteFailed ==
  /\ babyCall.awaiting = BABY_NAME_KEY
  /\ babyCall' = NoCall
  /\ alert' = IF babyCall.fn = "saveBabyName" THEN "couldNotSaveName"
              ELSE "couldNotUpdateName"
  /\ lastIo' = "setItem_failed"
  /\ UNCHANGED <<trackerVars, lastOp, babyName, feedingType, babyLoading, babyStored,
                 formName, unhandled>>

\* setItem(FEEDING_TYPE_KEY, type) succeeds: setFeedingType
FeedingTypeWriteDone ==
  /\ babyCall.awaiting = FEEDING_TYPE_KEY
  /\ babyStored' = [babyStored EXCEPT !.feeding = babyCall.feeding]
  /\ feedingType' = babyCall.feeding
  /\ babyCall' = NoCall
  /\ lastIo' = "setItem_done"
  /\ UNCHANGED <<trackerVars, lastOp, babyName, babyLoading, formName, alert, unhandled>>

\* setItem(FEEDING_TYPE_KEY, type) throws: the function logs and throws;
\* handleCreateBaby shows an Alert, the press handler of the settings screen
\* has no catch
FeedingTypeWriteFailed ==
  /\ babyCall.awaiting = FEEDING_TYPE_KEY
  /\ babyCall' = NoCall
  /\ IF babyCall.fn = "saveBabyName"
     THEN alert' = "couldNotSaveName" /\ unhandled' = unhandled
     ELSE alert' = alert /\ unhandled' = TRUE
  /\ lastIo' = "setItem_failed"
  /\ UNCHANGED <<trackerVars, lastOp, babyName, feedingType, babyLoading, babyStored,
                 formName>>

InitBaby ==
  /\ activities = <<>>
  /\ selectedTime = NoDate
  /\ now = StoreNow
  /\ lastOp = "init"
  /\ summary = NoSummary
  /\ weekOffset = 0
  /\ loading = TRUE
  /\ stored = NoValue
  /\ inflight = <<GetItemOp>>
  /\ errors = <<>>
  /\ rejected = {}
  /\ lastIo = "none"
  /\ babyName = NoName
  /\ feedingType = "mixed"
  /\ babyLoading = TRUE
  /\ babyStored \in BabyStoredAtStart
  /\ babyCall = NoCall
  /\ formName = <<>>
  /\ alert = "none"
  /\ unhandled = FALSE

NextBaby ==
  \/ LoadBabyNameDone
  \/ \E key \in {BABY_NAME_KEY, FEEDING_TYPE_KEY} : LoadBabyNameFailed(key)
  \/ \E text \in FormTexts : SetFormName(text)
  \/ \E type \in FeedingType : HandleCreateBaby(type)
  \/ HandleSave
  \/ \E type \in FeedingType : UpdateFeedingType(type)
  \/ BabyNameWriteDone
  \/ BabyNameWriteFailed
  \/ FeedingTypeWriteDone
  \/ FeedingTypeWriteFailed

SpecBaby == InitBaby /\ [][NextBaby]_vars

----------------------------------------------------------------------------
(* Vocabulary of the properties *)

RECURSIVE SetSum(_, _)
\* The sum of f[x] over the finite set S
SetSum(f, S) ==
  IF S = {} THEN 0
  ELSE LET x == CHOOSE y \in S : TRUE IN f[x] + SetSum(f, S \ {x})

Abs(x) == IF x >= 0 THEN x ELSE -x

\* A summary has just been computed for the log in activities
HasSummary == summary.targetDay # NoDate

DayNumber(t) == CHOOSE d \in 0..(MaxDay + 2) : d * DayMs <= t /\ t < (d + 1) * DayMs

IsSleep(a) == a.type \in {"sleep_start", "sleep_end"}

IsAscending(s) == \A i, j \in DOMAIN s : i < j => s[i].timestamp <= s[j].timestamp

\* The closed sleep sessions of a log in time order: a sleep_start paired
\* with the next sleep_end, no other sleep event between the two.
SessionPairs(s) ==
  {p \in (DOMAIN s) \X (DOMAIN s) :
     /\ p[1] < p[2]
     /\ s[p[1]].type = "sleep_start"
     /\ s[p[2]].type = "sleep_end"
     /\ \A k \in (p[1] + 1)..(p[2] - 1) : ~IsSleep(s[k])}

\* Milliseconds of [from, to] inside the midnight-to-midnight window of the
\* day of targetDay
OverlapMs(from, to, targetDay) ==
  LET midnight == DayNumber(targetDay) * DayMs
      nextMidnight == (DayNumber(targetDay) + 1) * DayMs
      lo == IF from > midnight THEN from ELSE midnight
      hi == IF to < nextMidnight THEN to ELSE nextMidnight
  IN  IF hi > lo THEN hi - lo ELSE 0

WholeMinute(t) == t % MinuteMs = 0

\* The start of the open session of a log in time order: the last sleep
\* event when it is a sleep_start
PendingStart(s) ==
  LET sleeps == {i \in DOMAIN s : IsSleep(s[i])} IN
  IF sleeps = {} THEN NoDate
  ELSE LET last == CHOOSE i \in sleeps : \A k \in sleeps : k <= i
       IN  IF s[last].type = "sleep_start" THEN s[last].timestamp ELSE NoDate

\* The sleep minutes of the closed sessions in the summary: all of them when
\* no session is open, otherwise what the walk had added before the open
\* session was looked at
ClosedMinutes ==
  IF PendingStart(activities) = NoDate THEN summary.result.sleepMinutes
  ELSE SleepWalk(activities, summary.targetDay, 0, NoDate).sleepMinutes

\* The sleep minutes the summary has added for the open session
OpenMinutes == summary.result.sleepMinutes - ClosedMinutes

\* minutes is ms to the nearest minute (equal when ms is whole minutes)
NearestMinute(minutes, ms) == 2 * Abs(minutes * MinuteMs - ms) <= MinuteMs

----------------------------------------------------------------------------
(* Properties *)

\* C1: after summarizeDay(T) the sleep minutes of the closed sessions are,
\* session by session, the length in minutes of the part of the session inside
\* the midnight-to-midnight window of T: exactly for sessions that start and
\* end on whole minutes, to the nearest minute otherwise; the sessions are
\* those of the log in time order.  23:00 of day 0 to 02:00 of day 1 gives 60
\* for day 0 and 120 for day 1.
C1_ClosedSessionClipped ==
  HasSummary =>
    LET pairs == SessionPairs(activities)
        overlap == [p \in pairs |->
                      OverlapMs(activities[p[1]].timestamp,
                                activities[p[2]].timestamp, summary.targetDay)]
        inexact == {p \in pairs :
                      /\ overlap[p] > 0
                      /\ ~(WholeMinute(activities[p[1]].timestamp)
                           /\ WholeMinute(activities[p[2]].timestamp))}
    IN  /\ IsAscending(activities)
        /\ 2 * Abs(ClosedMinutes * MinuteMs - SetSum(overlap, pairs))
             <= Cardinality(inexact) * MinuteMs
        /\ (\E i, j \in DOMAIN activities :
               /\ pairs = {<<i, j>>}
               /\ activities[i].timestamp = At(0, 23, 0, 0)
               /\ activities[j].timestamp = At(1, 2, 0, 0))
             => /\ DayNumber(summary.targetDay) = 0 => ClosedMinutes = 60
                /\ DayNumber(summary.targetDay) = 1 => ClosedMinutes = 120

\* C1 witness: the session 23:00 of day 0 to 02:00 of day 1 summarised for
\* day 0
C1_Witness ==
  /\ HasSummary
  /\ DayNumber(summary.targetDay) = 0
  /\ \E i, j \in DOMAIN activities :
       /\ <<i, j>> \in SessionPairs(activities)
       /\ activities[i].timestamp = At(0, 23, 0, 0)
       /\ activities[j].timestamp = At(1, 2, 0, 0)
  /\ ClosedMinutes = 60

\* C2: after summarizeDay(T) each of poop, pee, breast and bottle is the number
\* of activities of that type whose local date is the day of T, and their sum
\* is the number of non-sleep activities of that day.
C2_CountsPerDay ==
  HasSummary =>
    LET onDay == {i \in DOMAIN activities :
                    DayNumber(activities[i].timestamp) = DayNumber(summary.targetDay)}
        r == summary.result
    IN  /\ \A type \in {"poop", "pee", "breast", "bottle"} :
             r[type] = Cardinality({i \in onDay : activities[i].type = type})
        /\ r.poop + r.pee + r.breast + r.bottle
             = Cardinality({i \in onDay : ~IsSleep(activities[i])})

\* C2 witness: a summary of a day that holds a counted activity and a sleep
\* event, while another day holds a non-sleep activity
C2_Witness ==
  /\ HasSummary
  /\ summary.result.poop = 1
  /\ \E i, j \in DOMAIN activities :
       /\ IsSleep(activities[i])
       /\ DayNumber(activities[i].timestamp) = DayNumber(summary.targetDay)
       /\ ~IsSleep(activities[j])
       /\ DayNumber(activities[j].timestamp) # DayNumber(summary.targetDay)

\* The open session adds what Expected(_) says: as the difference to the
\* minutes of the closed sessions, and as the whole of sleepMinutes when the
\* log has no closed session.
OpenSessionAdds(Expected(_)) ==
  /\ Expected(OpenMinutes)
  /\ SessionPairs(activities) = {} => Expected(summary.result.sleepMinutes)

\* The log's last sleep event is a sleep_start dated the day before today
OpenSinceYesterday ==
  /\ HasSummary
  /\ PendingStart(activities) # NoDate
  /\ DayNumber(PendingStart(activities)) + 1 = DayNumber(now)

\* C3 as stated: with an open session started yesterday, the summary of
\* yesterday reports 1440 minutes for it and the summary of today the minutes
\* from today's midnight to now.
C3_Original ==
  OpenSinceYesterday =>
    /\ DayNumber(summary.targetDay) + 1 = DayNumber(now)
         => OpenSessionAdds(LAMBDA m : m = 1440)
    /\ DayNumber(summary.targetDay) = DayNumber(now)
         => OpenSessionAdds(LAMBDA m : NearestMinute(m, now - DayNumber(now) * DayMs))

\* C3 amended: with an open session started yesterday, the summary of
\* yesterday adds nothing for it and the summary of today adds the minutes
\* from today's midnight to now.
C3_OpenSinceYesterday ==
  OpenSinceYesterday =>
    /\ DayNumber(summary.targetDay) + 1 = DayNumber(now)
         => OpenSessionAdds(LAMBDA m : m = 0)
    /\ DayNumber(summary.targetDay) = DayNumber(now)
         => OpenSessionAdds(LAMBDA m : NearestMinute(m, now - DayNumber(now) * DayMs))

\* C3 witness: yesterday summarised while the session started yesterday at
\* 23:00 is still open
C3_Witness ==
  /\ OpenSinceYesterday
  /\ PendingStart(activities) = At(0, 23, 0, 0)
  /\ DayNumber(summary.targetDay) + 1 = DayNumber(now)
  /\ summary.result.sleepMinutes = 0

\* C8: when every closed session of the log starts and ends on one day, the
\* sleep minutes of the closed sessions for T are the full lengths of the
\* sessions of T's day and nothing of the sessions of other days; 08:00 to
\* 09:30 of day 0 gives 90 for day 0 and 0 for every other day.
C8_SessionInsideOneDay ==
  HasSummary =>
    LET pairs == SessionPairs(activities)
        from(p) == activities[p[1]].timestamp
        to(p) == activities[p[2]].timestamp
        onTarget == {p \in pairs : DayNumber(from(p)) = DayNumber(summary.targetDay)}
        length == [p \in onTarget |-> to(p) - from(p)]
        inexact == {p \in onTarget : ~(WholeMinute(from(p)) /\ WholeMinute(to(p)))}
    IN  (\A p \in pairs : DayNumber(from(p)) = DayNumber(to(p))) =>
          /\ 2 * Abs(ClosedMinutes * MinuteMs - SetSum(length, onTarget))
               <= Cardinality(inexact) * MinuteMs
          /\ onTarget = {} => ClosedMinutes = 0
          /\ (\E p \in pairs : /\ pairs = {p}
                                /\ from(p) = At(0, 8, 0, 0)
                                /\ to(p) = At(0, 9, 30, 0))
               => ClosedMinutes = IF DayNumber(summary.targetDay) = 0 THEN 90 ELSE 0

\* C8 witness: the session 08:00 to 09:30 of day 0 summarised for day 1
C8_Witness ==
  /\ HasSummary
  /\ DayNumber(summary.targetDay) = 1
  /\ \E p \in SessionPairs(activities) :
       /\ activities[p[1]].timestamp = At(0, 8, 0, 0)
       /\ activities[p[2]].timestamp = At(0, 9, 30, 0)
  /\ summary.result.sleepMinutes = 0

\* C9: when the open session started today and today is summarised, it adds
\* the minutes from its start to now (22:00 to 22:45 gives 45), and 0 when its
\* start is later than now.
C9_OpenToday ==
  ( /\ HasSummary
    /\ PendingStart(activities) # NoDate
    /\ DayNumber(PendingStart(activities)) = DayNumber(now)
    /\ DayNumber(summary.targetDay) = DayNumber(now) ) =>
    LET start == PendingStart(activities) IN
    /\ OpenSessionAdds(LAMBDA m : IF start > now THEN m = 0
                                  ELSE m >= 0 /\ NearestMinute(m, now - start))
    /\ (start = At(1, 22, 0, 0) /\ now = At(1, 22, 45, 0)) => OpenMinutes = 45

\* C9 witness: start 22:00 today, now 22:45, today summarised
C9_Witness ==
  /\ HasSummary
  /\ now = At(1, 22, 45, 0)
  /\ PendingStart(activities) = At(1, 22, 0, 0)
  /\ DayNumber(summary.targetDay) = 1
  /\ summary.result.sleepMinutes = 45

\* C10: for a past target day, an open session that starts on the target day
\* or after its end adds nothing.
C10_OpenPastDay ==
  ( /\ HasSummary
    /\ DayNumber(summary.targetDay) < DayNumber(now)
    /\ PendingStart(activities) # NoDate
    /\ DayNumber(PendingStart(activities)) >= DayNumber(summary.targetDay) ) =>
    OpenSessionAdds(LAMBDA m : m = 0)

\* C10 witness: day 0 summarised on day 1 while a session started on day 0 is
\* open and an earlier session of day 0 is closed
C10_Witness ==
  /\ HasSummary
  /\ DayNumber(now) = 1
  /\ DayNumber(summary.targetDay) = 0
  /\ PendingStart(activities) = At(0, 23, 0, 0)
  /\ SessionPairs(activities) # {}
  /\ summary.result.sleepMinutes = 90

\* C4: summarizeDay only reads the log: a call leaves the store's log with the
\* same activities in the same order.
C4_SummaryLeavesLog == [][lastOp' = "summary" => activities' = activities]_vars

\* C5: no two activities of the log share an id.
C5_UniqueIds ==
  \A i, j \in DOMAIN activities : activities[i].id = activities[j].id => i = j

\* C6: importAll(exportAll(log)) leaves a log equal to the log before, element
\* by element and in the same order, under (id, type, timestamp) equality.
C6_ImportExportRoundTrip ==
  [][lastOp' = "import_exported" =>
       /\ Len(activities') = Len(activities)
       /\ \A i \in DOMAIN activities :
            /\ activities'[i].id = activities[i].id
            /\ activities'[i].type = activities[i].type
            /\ activities'[i].timestamp = activities[i].timestamp]_vars

\* C6 witness: a log of three activities, two of them with one timestamp,
\* has been exported and imported
C6_Witness ==
  /\ lastOp = "import_exported"
  /\ Len(activities) = 3
  /\ activities[1].timestamp # activities[2].timestamp
  /\ activities[1].timestamp = activities[3].timestamp

\* after is before without the activities of id activityId, the others in
\* their order: the k-th activity kept is the k-th of after
IsLogWithout(after, before, activityId) ==
  LET kept == {i \in DOMAIN before : before[i].id # activityId} IN
  /\ Len(after) = Cardinality(kept)
  /\ \A i \in kept : after[Cardinality({j \in kept : j <= i})] = before[i]

\* C7: remove(id) yields the log without the activity of that id, every other
\* activity kept in its relative order; with no activity of that id the log
\* is unchanged, and the call is possible all the same.
C7_RemoveFilters ==
  [][\A activityId \in RemovableIds :
       RemoveActivity(activityId) =>
         /\ IsLogWithout(activities', activities, activityId)
         /\ (\A i \in DOMAIN activities : activities[i].id # activityId)
              => activities' = activities]_vars

\* C7 witness: a removal has left two activities of different ids in the log
C7_Witness ==
  /\ lastOp = "remove"
  /\ Len(activities) = 2
  /\ activities[1].id # activities[2].id

\* C11: for a past target day, an open session that started before the
\* target day's midnight adds exactly 1440 minutes.
C11_OpenThroughPastDay ==
  ( /\ HasSummary
    /\ DayNumber(summary.targetDay) < DayNumber(now)
    /\ PendingStart(activities) # NoDate
    /\ DayNumber(PendingStart(activities)) < DayNumber(summary.targetDay) ) =>
    OpenSessionAdds(LAMBDA m : m = 1440)

\* C11 witness: day 1 summarised on day 2 while the session started on day 0
\* at 23:00 is open
C11_Witness ==
  /\ HasSummary
  /\ DayNumber(now) = 2
  /\ DayNumber(summary.targetDay) = 1
  /\ PendingStart(activities) = At(0, 23, 0, 0)
  /\ summary.result.sleepMinutes = 1440

\* s without the elements at the indices of drop, the others in their order
WithoutIndices(s, drop) ==
  LET kept == DOMAIN s \ drop IN
  [k \in 1..Cardinality(kept) |->
     s[CHOOSE i \in kept : Cardinality({j \in kept : j <= i}) = k]]

\* The sleep_start events of a log in time order that are followed by another
\* sleep_start with no sleep_end between the two
SupersededStarts(s) ==
  {i \in DOMAIN s :
     /\ s[i].type = "sleep_start"
     /\ \E j \in DOMAIN s :
          /\ i < j
          /\ s[j].type = "sleep_start"
          /\ \A k \in (i + 1)..(j - 1) : s[k].type # "sleep_end"}

\* C12: of several sleep_start events with no sleep_end between them only the
\* latest counts: the sleep minutes and the pending start of every day are
\* those of the log without the earlier starts; starts at 08:00 and 23:00 of
\* day 0 and an end at 02:00 of day 1 give 60 for day 0 and 120 for day 1.
C12_LatestStartWins ==
  (HasSummary /\ SupersededStarts(activities) # {}) =>
    LET reduced == WithoutIndices(activities, SupersededStarts(activities))
        r == calculateSummaryForDay(reduced, summary.targetDay, now)
    IN  /\ summary.result.sleepMinutes = r.sleepMinutes
        /\ summary.result.lastSleepStart = r.lastSleepStart
        /\ \A p \in SessionPairs(activities) : p[1] \notin SupersededStarts(activities)
        /\ ( /\ Len(activities) = 3
              /\ activities[1] = NewActivity(At(0, 8, 0, 0), "sleep_start")
              /\ activities[2] = NewActivity(At(0, 23, 0, 0), "sleep_start")
              /\ activities[3] = NewActivity(At(1, 2, 0, 0), "sleep_end") )
             => /\ DayNumber(summary.targetDay) = 0 => summary.result.sleepMinutes = 60
                /\ DayNumber(summary.targetDay) = 1 => summary.result.sleepMinutes = 120

\* C12 witness: starts at 08:00 and 23:00 of day 0, an end at 02:00 of day 1,
\* day 0 summarised
C12_Witness ==
  /\ HasSummary
  /\ DayNumber(summary.targetDay) = 0
  /\ Len(activities) = 3
  /\ activities[1] = NewActivity(At(0, 8, 0, 0), "sleep_start")
  /\ activities[2] = NewActivity(At(0, 23, 0, 0), "sleep_start")
  /\ activities[3] = NewActivity(At(1, 2, 0, 0), "sleep_end")
  /\ summary.result.sleepMinutes = 60

\* The sleep_end events of a log in time order that are reached while no
\* sleep_start is pending
OrphanEnds(s) ==
  {j \in DOMAIN s :
     /\ s[j].type = "sleep_end"
     /\ \A i \in 1..(j - 1) :
          s[i].type = "sleep_start" => \E k \in (i + 1)..(j - 1) : s[k].type = "sleep_end"}

\* C13: a sleep_end reached while no sleep_start is pending is ignored: the
\* summary is that of the log without this sleep_end.
C13_OrphanEndIgnored ==
  HasSummary =>
    \A j \in OrphanEnds(activities) :
      summary.result
        = calculateSummaryForDay(WithoutIndices(activities, {j}), summary.targetDay, now)

\* C13 witness: a session 08:00 to 09:30 of day 0 followed by a second
\* sleep_end at 23:00, day 0 summarised
C13_Witness ==
  /\ HasSummary
  /\ DayNumber(summary.targetDay) = 0
  /\ Len(activities) = 3
  /\ activities[1] = NewActivity(At(0, 8, 0, 0), "sleep_start")
  /\ activities[2] = NewActivity(At(0, 9, 30, 0), "sleep_end")
  /\ activities[3] = NewActivity(At(0, 23, 0, 0), "sleep_end")
  /\ OrphanEnds(activities) = {3}
  /\ summary.result.sleepMinutes = 90

\* C14: for the empty log the summary of any day has the four counts 0,
\* sleepMinutes 0 and no lastSleepStart.
C14_EmptyLog ==
  (HasSummary /\ activities = <<>>) =>
    /\ summary.result.poop = 0
    /\ summary.result.pee = 0
    /\ summary.result.breast = 0
    /\ summary.result.bottle = 0
    /\ summary.result.sleepMinutes = 0
    /\ summary.result.lastSleepStart = NoDate

\* C14 witness: today summarised for the empty log
C14_Witness ==
  /\ HasSummary
  /\ activities = <<>>
  /\ DayNumber(summary.targetDay) = DayNumber(now)

\* C17: addActivity(type) makes one activity stamped with the selected slot
\* when one is selected and with the current time otherwise, and puts it
\* first: the log is one longer and the previous activities follow in order.
C17_AddPrepends ==
  [][lastOp' = "add" =>
       LET when == IF selectedTime # NoDate THEN selectedTime ELSE now IN
       /\ Len(activities') = Len(activities) + 1
       /\ activities'[1].timestamp = when
       /\ activities'[1].type \in ActivityType
       /\ activities'[1].id = MakeId(when, activities'[1].type)
       /\ \A i \in DOMAIN activities : activities'[i + 1] = activities[i]]_vars

\* C17 witness: an add with the slot selected on top of an add without it
C17_Witness ==
  /\ lastOp = "add"
  /\ Len(activities) = 2
  /\ selectedTime = At(0, 23, 0, 0)
  /\ activities[1].timestamp = At(0, 23, 0, 0)
  /\ activities[2].timestamp = StoreNow

\* C18: once clearAllData and every AsyncStorage call outstanding after it
\* have completed without a failure, the log in memory is empty and nothing
\* is stored under ACTIVITIES_KEY.
C18_ClearAllRemoves ==
  ( /\ lastOp = "clear_all"
    /\ inflight = <<>>
    /\ errors = <<>>
    /\ rejected = {} ) =>
    (activities = <<>> /\ ~stored.present)

\* A step in which a setItem issued after one of the operations of callers
\* throws
SaveFails(callers) ==
  /\ inflight # <<>>
  /\ Head(inflight).op = "setItem"
  /\ Head(inflight).by \in callers
  /\ lastIo' = "setItem_failed"
  /\ inflight' # inflight

C20_FailedWriteLeavesLog ==
  [][SaveFails({"add", "remove", "import"}) =>
       /\ activities' = activities
       /\ stored' = stored
       /\ inflight' = Tail(inflight)]_vars

\* C20 witness: the write after a removal has failed, storage still holds the
\* activity that the log in memory no longer has, and no call is outstanding
C20_Witness ==
  /\ lastOp = "remove"
  /\ lastIo = "setItem_failed"
  /\ inflight = <<>>
  /\ activities = <<>>
  /\ stored.present
  /\ Len(stored.value) = 1

\* The instant t is on day n
OnDay(t, n) == n * DayMs <= t /\ t < (n + 1) * DayMs

\* The number of activities of a type on day n
CountOnDay(acts, type, n) ==
  Cardinality({i \in DOMAIN acts : acts[i].type = type /\ OnDay(acts[i].timestamp, n)})

\* C15: weekData has exactly 7 points, in ascending order of date, for the
\* days today - 6 - 7 * weekOffset to today - 7 * weekOffset, each with the
\* day's poop and pee counts, its breast and bottle counts added as feedings,
\* and the sleep minutes of its summary divided by 60.
C15_WeekSeries ==
  LET data == weekData(activities, weekOffset, now)
      today == CHOOSE n \in 0..(WeekToday + 1) : OnDay(now, n)
      first == today - 6 - 7 * weekOffset
  IN  /\ Len(data) = 7
      /\ \A k \in 1..7 :
           LET n == first + (k - 1)
               s == calculateSummaryForDay(activities, n * DayMs + 12 * HourMs, now)
           IN  /\ data[k].day = WeekdayNames[(n % 7) + 1]
               /\ data[k].poop = CountOnDay(activities, "poop", n)
               /\ data[k].pee = CountOnDay(activities, "pee", n)
               /\ data[k].feedings = CountOnDay(activities, "breast", n)
                                       + CountOnDay(activities, "bottle", n)
               /\ data[k].feedings = s.breast + s.bottle
               /\ data[k].sleepHours.den = 60
               /\ data[k].sleepHours.num = s.sleepMinutes

\* C15 witness: the week before the current one is shown for a log with a
\* sleep from 22:00 to 06:30 that ends on the last day of that week
C15_Witness ==
  /\ lastOp = "week_prev"
  /\ weekOffset = 1
  /\ activities = <<NewActivity(At(WeekToday - 8, 22, 0, 0), "sleep_start"),
                    NewActivity(At(WeekToday - 7, 6, 30, 0), "sleep_end")>>
  /\ weekData(activities, weekOffset, now)[6].sleepHours = [num |-> 120, den |-> 60]
  /\ weekData(activities, weekOffset, now)[7].sleepHours = [num |-> 390, den |-> 60]

\* C16: weekOffset is an integer that is never negative, and a press on
\* week-next at offset 0 leaves it 0.
C16_WeekOffsetNotNegative ==
  /\ weekOffset \in Nat
  /\ lastOp = "week_next_at_0" => weekOffset = 0

\* C16 witness: week-next pressed at offset 0
C16_Witness ==
  /\ lastOp = "week_next_at_0"
  /\ weekOffset = 0

\* The logs that hold the activities of s in any order
Reorderings(s) ==
  {[i \in DOMAIN s |-> s[p[i]]] : p \in Permutations(DOMAIN s)}

\* C25: the sleep minutes and the pending start of a day's summary are the
\* same for every order of the log's activities, activities with equal
\* timestamps included.
C25_OrderIndependent ==
  HasSummary =>
    \A other \in Reorderings(activities) :
      LET r == calculateSummaryForDay(other, summary.targetDay, now)
      IN  /\ r.sleepMinutes = summary.result.sleepMinutes
          /\ r.lastSleepStart = summary.result.lastSleepStart

\* C28: for a target day later than today an open session adds 0 minutes.
C28_OpenFutureDay ==
  ( /\ HasSummary
    /\ DayNumber(summary.targetDay) > DayNumber(now)
    /\ PendingStart(activities) # NoDate ) =>
    OpenSessionAdds(LAMBDA m : m = 0)

\* Every timestamp of the log and the clock reading are whole minutes
AllWholeMinutes ==
  /\ WholeMinute(now)
  /\ \A i \in DOMAIN activities : WholeMinute(activities[i].timestamp)

\* C29: with whole-minute timestamps and a whole-minute clock reading the
\* sleep minutes of a day, closed sessions and open session together, are
\* between 0 and 1440.
C29_SleepMinutesInDay ==
  (HasSummary /\ AllWholeMinutes) =>
    /\ summary.result.sleepMinutes >= 0
    /\ summary.result.sleepMinutes <= 24 * 60

\* C29 witness: today has a closed session from yesterday 23:00 to 02:00 and
\* a session open since 22:00, 45 minutes before now
C29_Witness ==
  /\ HasSummary
  /\ AllWholeMinutes
  /\ DayNumber(summary.targetDay) = DayNumber(now)
  /\ SessionPairs(activities) # {}
  /\ PendingStart(activities) = At(1, 22, 0, 0)
  /\ summary.result.sleepMinutes = 165

\* C30: the minutes that the closed sessions of a whole-minute log add to the
\* summaries of all days are together the lengths of the sessions in minutes.
C30_SessionMinutesConserved ==
  (HasSummary /\ AllWholeMinutes /\ PendingStart(activities) = NoDate) =>
    LET perDay == [d \in Days |->
                     calculateSummaryForDay(activities, At(d, 12, 0, 0), now).sleepMinutes]
        length == [p \in SessionPairs(activities) |->
                     (activities[p[2]].timestamp - activities[p[1]].timestamp) \div MinuteMs]
    IN  SetSum(perDay, Days) = SetSum(length, SessionPairs(activities))

\* C30 witness: one session from 23:00 of day 0 to midnight at the end of
\* day 1, and the 1440 minutes of day 1
C30_Witness ==
  /\ HasSummary
  /\ AllWholeMinutes
  /\ activities = <<NewActivity(At(0, 23, 0, 0), "sleep_start"),
                    NewActivity(At(2, 0, 0, 0), "sleep_end")>>
  /\ DayNumber(summary.targetDay) = 1
  /\ summary.result.sleepMinutes = 1440

\* A step in which the getItem of loadActivities returns and its result is
\* parsed
LoadSucceeds == loading /\ ~loading' /\ lastIo' = "getItem_done"

\* C26: when the load completes, the log in memory holds the stored
\* activities and the activities added while loading.
C26_AddWhileLoadingKept ==
  [][LoadSucceeds =>
       /\ \A i \in DOMAIN activities :
            \E j \in DOMAIN activities' : activities'[j] = activities[i]
       /\ stored.present =>
            \A i \in DOMAIN stored.value :
              \E j \in DOMAIN activities' :
                activities'[j] = parsedActivities(stored.value)[i]]_vars

\* C27: while loading no setItem of the log is outstanding, and the stored
\* value is the one the previous session left.
C27_NoWriteWhileLoading ==
  loading =>
    /\ \A i \in DOMAIN inflight : inflight[i].op # "setItem"
    /\ stored \in StoredAtStart

\* C27 witness: an activity added while the stored log is still to be read
C27_Witness ==
  /\ loading
  /\ lastOp = "add"
  /\ activities = <<NewActivity(StoreNow, "poop")>>
  /\ stored.present /\ ~stored.corrupt
  /\ inflight = <<GetItemOp>>

\* A step in which a call on the store changes the log
MutationStep ==
  /\ lastIo' = "none"
  /\ lastOp' \in {"add", "remove", "remove_absent", "import_exported", "clear_all"}

\* No write of the log has failed
NoSaveFailed == \A i \in DOMAIN errors : errors[i] # "save"

\* C21: after the load every mutation issues, as its last call, a write of
\* the whole log; when no call is outstanding and no write has failed the
\* stored log is the log in memory; and when mutations stop, eventually no
\* call is outstanding.
C21_WritesFollowMutations ==
  /\ [][(MutationStep /\ ~loading) =>
          /\ Len(inflight') > Len(inflight)
          /\ inflight'[Len(inflight')].op = "setItem"
          /\ inflight'[Len(inflight')].value = JSONStringify(activities')]_vars
  /\ []((~loading /\ inflight = <<>> /\ NoSaveFailed) =>
          (stored.present /\ ~stored.corrupt
             /\ parsedActivities(stored.value) = activities))
  /\ (<>[][~MutationStep]_vars) => <>[](~loading /\ inflight = <<>>)

\* C21 witness: two activities added after the load and both writes done
C21_Witness ==
  /\ ~loading
  /\ lastOp = "add"
  /\ lastIo = "setItem_done"
  /\ inflight = <<>>
  /\ Len(activities) = 2
  /\ stored = StoredValue(JSONStringify(activities))

\* A step in which the getItem of loadActivities, or the parsing of what it
\* returned, throws
LoadFails == loading /\ lastIo' = "getItem_failed"

\* C22 as stated: a failed load ends with the log in memory empty and loading
\* false, no error reaches a caller, and loading becomes false in every case.
C22_Original ==
  /\ [][LoadFails =>
          (activities' = <<>> /\ ~loading' /\ rejected' = rejected)]_vars
  /\ <>[](~loading)

\* C22: a failed load leaves the log in memory as it was (empty when no
\* activity was added while loading), ends loading, is logged and reaches no
\* caller; and loading becomes false in every case.
C22_LoadFailureRecovered ==
  /\ [][LoadFails =>
          /\ activities' = activities
          /\ lastOp = "init" => activities' = <<>>
          /\ ~loading'
          /\ errors' = Append(errors, "load")
          /\ rejected' = rejected]_vars
  /\ <>[](~loading)

\* C22 witness: the stored string could not be parsed
C22_Witness ==
  /\ ~loading
  /\ lastOp = "init"
  /\ lastIo = "getItem_failed"
  /\ stored = CorruptValue
  /\ activities = <<>>
  /\ errors = <<"load">>
  /\ rejected = {}

\* A step in which the setItem that a save or update awaits throws
BabyWriteFails ==
  /\ babyCall # NoCall
  /\ babyCall' = NoCall
  /\ lastIo' = "setItem_failed"

\* C23: when a write of saveBabyName, updateBabyName or updateFeedingType
\* fails, the caller shows an alert, and babyName and feedingType are as they
\* were before the call.
C23_FailedSaveLeavesState ==
  [][BabyWriteFails =>
       /\ babyName' = babyCall.nameBefore
       /\ feedingType' = babyCall.feedingBefore
       /\ alert' \in {"couldNotSaveName", "couldNotUpdateName"}
       /\ unhandled' = unhandled]_vars

\* The text has no character that is not whitespace
IsBlank(text) == \A i \in DOMAIN text : text[i] \in Whitespace

\* A step in which the onboarding form or the name of the settings form is
\* submitted
SubmitName == lastIo' = "none" /\ lastOp' \in {"create_baby", "save_name"}

\* C24: the submission of an empty or whitespace-only name issues no write,
\* leaves babyName and feedingType (and so hasCompletedOnboarding) and the
\* stored values unchanged, and shows the alert of the form.
C24_BlankNameRejected ==
  [][(SubmitName /\ IsBlank(formName)) =>
       /\ babyCall' = NoCall
       /\ babyStored' = babyStored
       /\ babyName' = babyName
       /\ feedingType' = feedingType
       /\ (babyName' # NoName) = (babyName # NoName)
       /\ alert' = IF lastOp' = "create_baby" THEN "enterBabyName" ELSE "enterName"]_vars

\* C24 witness: a name of whitespace only submitted on the settings form
C24_Witness ==
  /\ lastOp = "save_name"
  /\ lastIo = "none"
  /\ formName = <<" ", "\t">>
  /\ alert = "enterName"
  /\ babyName = <<"A">>
  /\ babyCall = NoCall

====
